---- MODULE Spec2Model ----
(***************************************************************************)
(* Model of uhttp_sse (src/src/lib.rs): SseMessage and SseField writing    *)
(* the Server-Sent Events wire format onto a sink W: std::io::Write.       *)
(*                                                                         *)
(* Bytes are one-character strings; byte strings are sequences of them.    *)
(* The sink is the environment: every call made on it gets its outcome     *)
(* from a response kind chosen nondeterministically (full write, short     *)
(* write, Ok(0), ErrorKind::Interrupted, another error).                   *)
(***************************************************************************)
EXTENDS Integers, Sequences, FiniteSets, TLC

\* ------------------------------------------------------------------ bounds
MaxMsgs      == 2    \* SseMessage values created over the sink
MaxFields    == 2    \* calls of data()/event()/id()/retry(), failed ones included
MaxWrites    == 2    \* calls of SseField::write and SseField::flush
MaxOps       == 10   \* operations in one run over a sink that never fails
MaxFaultyOps == 6    \* operations in one run over a sink that may fail

\* ------------------------------------------------------------------ inputs
NL == "\n"
Chunks == { <<"a">>, <<"b", "c">>, <<NL>> }   \* buffers handed to SseField::write

VARIABLES
  sink,     \* the bytes the sink has accepted, in order
  health,   \* the sink's failure behaviour from here on (see WriteOutcomes)
  state,    \* "NoMsg" | "Idle" | "FieldOpen" | "Closed": the SseMessage over the sink
  field,    \* name of the live SseField, "none" when there is none
  msgNo,    \* number of SseMessage values created so far
  ops       \* history: one record per operation, with the sink calls it made

vars == <<sink, health, state, field, msgNo, ops>>

Min(a, b) == IF a < b THEN a ELSE b

\* ------------------------------------------------------------ the sink (W)
\* W::write(buf) answering with response kind r: the call as its caller
\* observes it.  "Full" accepts the buffer, "One" one byte of it, "Zero" is
\* Ok(0), "Interrupted" is ErrorKind::Interrupted, "Error" any other error.
SinkWrite(buf, r) ==
  CASE r = "Full"  -> [op |-> "write", buf |-> buf, ok |-> TRUE,  n |-> Len(buf),         err |-> "none"]
    [] r = "One"   -> [op |-> "write", buf |-> buf, ok |-> TRUE,  n |-> Min(1, Len(buf)), err |-> "none"]
    [] r = "Zero"  -> [op |-> "write", buf |-> buf, ok |-> TRUE,  n |-> 0,                err |-> "none"]
    [] OTHER       -> [op |-> "write", buf |-> buf, ok |-> FALSE, n |-> 0,                err |-> r]

\* W::flush() answering with response kind r.
SinkFlush(r) ==
  [op |-> "flush", buf |-> <<>>, ok |-> (r = "Ok"), n |-> 0,
   err |-> IF r = "Ok" THEN "none" ELSE r]

\* What a W may answer to write(buf), and what it is afterwards:
\*   "reliable"  never fails (the sink of the crate's tests, large enough);
\*   "sound"     has not failed yet: it may accept the buffer, fail once
\*               (a short write, Ok(0), Interrupted, an error) and be
\*               "glitched", run out of room (a short write or Ok(0)) and be
\*               "full", or break and be "broken";
\*   "glitched"  has had its one transient failure, accepts everything since;
\*   "full"      a fixed-size buffer with no room left: Ok(0) for ever;
\*   "broken"    every call is an error.
WriteOutcomes(h, buf) ==
  CASE h = "sound" ->
         {[resp |-> "Full", h |-> "sound"]}
           \cup {[resp |-> k, h |-> "glitched"] : k \in {"Zero", "Interrupted", "Error"}}
           \cup {[resp |-> "Zero", h |-> "full"], [resp |-> "Error", h |-> "broken"]}
           \cup (IF Len(buf) > 1
                   THEN {[resp |-> "One", h |-> "glitched"], [resp |-> "One", h |-> "full"]}
                   ELSE {})
    [] h = "full"   -> {[resp |-> "Zero",  h |-> "full"]}
    [] h = "broken" -> {[resp |-> "Error", h |-> "broken"]}
    [] OTHER        -> {[resp |-> "Full",  h |-> h]}

\* What a W may answer to flush(), and what it is afterwards.
FlushOutcomes(h) ==
  CASE h = "sound" ->
         {[resp |-> "Ok", h |-> "sound"], [resp |-> "Error", h |-> "glitched"],
          [resp |-> "Error", h |-> "broken"]}
    [] h = "broken" -> {[resp |-> "Error", h |-> "broken"]}
    [] OTHER        -> {[resp |-> "Ok", h |-> h]}

\* The bytes a sink call put into the sink.
Accepted(c) == IF c.op = "write" /\ c.ok THEN SubSeq(c.buf, 1, c.n) ELSE <<>>

\* A call that failed or accepted less than it was given.
IsFault(c) == ~c.ok \/ (c.op = "write" /\ c.n < Len(c.buf))

RECURSIVE AcceptedAll(_)
AcceptedAll(cs) == IF cs = <<>> THEN <<>> ELSE Accepted(Head(cs)) \o AcceptedAll(Tail(cs))

\* A run of some code against the sink: the calls it made in order, its
\* error ("none" when it has none) and the sink's health after it.
Run(cs, e, h) == [calls |-> cs, err |-> e, h |-> h]
After(c, r) == Run(<<c>> \o r.calls, r.err, r.h)

\* ------------------------------------------------ write!(stream, "{}:", name)
\* std::io::Write::write_all as driven by write_fmt: loop on write until the
\* buffer is empty; Ok(0) is WriteZero, Interrupted is retried, any other
\* error is returned.  The set of runs over every answer the sink may give.
\* (mutant) one write call instead of write_all: a short write passes for success
WriteAll_oneCall(buf, h) ==
  IF buf = <<>> THEN {Run(<<>>, "none", h)}
  ELSE { LET c == SinkWrite(buf, o.resp) IN Run(<<c>>, IF c.ok THEN "none" ELSE c.err, o.h)
         : o \in WriteOutcomes(h, buf) }

RECURSIVE WriteAll(_, _)
WriteAll(buf, h) ==
  IF buf = <<>> THEN {Run(<<>>, "none", h)}
  ELSE UNION {
    LET c == SinkWrite(buf, o.resp) IN
      IF c.ok /\ c.n = 0 THEN {Run(<<c>>, "WriteZero", o.h)}
      ELSE IF c.ok THEN {After(c, r) : r \in WriteAll(SubSeq(buf, c.n + 1, Len(buf)), o.h)}
      ELSE IF c.err = "Interrupted" THEN {After(c, r) : r \in WriteAll(buf, o.h)}
      ELSE {Run(<<c>>, c.err, o.h)}
    : o \in WriteOutcomes(h, buf) }

\* (mutant) write_fmt going on to the next piece after an error
WriteFmt_keepsGoing(name, h) ==
  UNION {
    {Run(a.calls \o b.calls, IF a.err # "none" THEN a.err ELSE b.err, b.h)
       : b \in WriteAll(<<":">>, a.h)}
    : a \in WriteAll(name, h) }

\* (mutant) the format string without its ":" piece
WriteFmt_nameOnly(name, h) == WriteAll(name, h)

\* write_fmt for the format string "{}:": the argument is written with one
\* write_all, then the literal piece ":" with another; the first error stops it.
WriteFmt(name, h) ==
  UNION {
    IF a.err # "none" THEN {a}
    ELSE {Run(a.calls \o b.calls, b.err, b.h) : b \in WriteAll(<<":">>, a.h)}
    : a \in WriteAll(name, h) }

\* What an operation hands back to its caller, with the sink calls it made:
\* ok/n/err are the io::Result (n the byte count of Ok(n)), made tells that
\* an SseField value was returned.
Ret(cs, ok, n, e, made, h) ==
  [calls |-> cs, ok |-> ok, n |-> n, err |-> e, made |-> made, h |-> h]

\* ---------------------------------------------------------------- SseField
\* SseField::new(stream, name): try!(write!(..)); Ok(SseField(stream))
SseField_new(name, h) ==
  {Ret(w.calls, w.err = "none", 0, w.err, w.err = "none", w.h) : w \in WriteFmt(name, h)}

\* (mutant) write reporting the whole buffer as written whatever the sink took
SseField_write_reportsAll(buf, h) ==
  { LET c == SinkWrite(buf, o.resp) IN Ret(<<c>>, c.ok, Len(buf), c.err, FALSE, o.h)
    : o \in WriteOutcomes(h, buf) }

\* (mutant) write calling the sink again after an error
SseField_write_retries(buf, h) ==
  UNION {
    LET c == SinkWrite(buf, o.resp) IN
      IF c.ok THEN {Ret(<<c>>, c.ok, c.n, c.err, FALSE, o.h)}
      ELSE { LET c2 == SinkWrite(buf, o2.resp)
             IN  Ret(<<c, c2>>, c2.ok, c2.n, c2.err, FALSE, o2.h)
             : o2 \in WriteOutcomes(o.h, buf) }
    : o \in WriteOutcomes(h, buf) }

\* (mutant) write refusing a buffer that holds a newline
SseField_write_rejectsNewline(buf, h) ==
  IF \E k \in DOMAIN buf : buf[k] = NL
    THEN {Ret(<<>>, FALSE, 0, "InvalidInput", FALSE, h)}
    ELSE { LET c == SinkWrite(buf, o.resp) IN Ret(<<c>>, c.ok, c.n, c.err, FALSE, o.h)
           : o \in WriteOutcomes(h, buf) }

\* <SseField as Write>::write(buf): self.0.write(buf)
SseField_write(buf, h) ==
  { LET c == SinkWrite(buf, o.resp) IN Ret(<<c>>, c.ok, c.n, c.err, FALSE, o.h)
    : o \in WriteOutcomes(h, buf) }

\* (mutant) a flush that returns Ok without calling the sink
SseField_flush_noop(h) == {Ret(<<>>, TRUE, 0, "none", FALSE, h)}

\* <SseField as Write>::flush(): self.0.flush()
SseField_flush(h) ==
  { LET c == SinkFlush(o.resp) IN Ret(<<c>>, c.ok, 0, c.err, FALSE, o.h)
    : o \in FlushOutcomes(h) }

\* (mutant) a drop that writes nothing
SseField_drop_nothing(h) == {Ret(<<>>, TRUE, 0, "none", FALSE, h)}

\* (mutant) a drop that writes the terminator with write_all
SseField_drop_writeAll(h) ==
  {Ret(w.calls, TRUE, 0, "none", FALSE, w.h) : w \in WriteAll(<<NL>>, h)}

\* (mutant) a drop that flushes after the terminator
SseField_drop_flushes(h) ==
  UNION {
    { Ret(<<SinkWrite(<<NL>>, o.resp), SinkFlush(f.resp)>>, TRUE, 0, "none", FALSE, f.h)
      : f \in FlushOutcomes(o.h) }
    : o \in WriteOutcomes(h, <<NL>>) }

\* <SseField as Drop>::drop: self.0.write(b"\n").is_ok();
SseField_drop(h) ==
  { Ret(<<SinkWrite(<<NL>>, o.resp)>>, TRUE, 0, "none", FALSE, o.h)
    : o \in WriteOutcomes(h, <<NL>>) }

\* -------------------------------------------------------------- SseMessage
\* (mutant) a constructor that flushes the stream it is given
SseMessage_new_flushes(h) ==
  {Ret(<<SinkFlush(f.resp)>>, TRUE, 0, "none", FALSE, f.h) : f \in FlushOutcomes(h)}

\* SseMessage::new(stream): SseMessage(stream)
SseMessage_new(h) == {Ret(<<>>, TRUE, 0, "none", FALSE, h)}

SseMessage_data(h)  == SseField_new(<<"d", "a", "t", "a">>, h)
\* (mutant) event() passing a name that is no field of the protocol
SseMessage_event_otherName(h) == SseField_new(<<"e", "v", "e", "n", "t", "s">>, h)
SseMessage_event(h) == SseField_new(<<"e", "v", "e", "n", "t">>, h)
SseMessage_id(h)    == SseField_new(<<"i", "d">>, h)
\* (mutant) retry() passing the name of another field
SseMessage_retry_wrongName(h) == SseField_new(<<"i", "d">>, h)
SseMessage_retry(h) == SseField_new(<<"r", "e", "t", "r", "y">>, h)

\* (mutant) a release that only flushes: the message terminator is left out
SseMessage_drop_flushOnly(h) ==
  { Ret(<<SinkFlush(f.resp)>>, TRUE, 0, "none", FALSE, f.h) : f \in FlushOutcomes(h) }

\* (mutant) a release that stops at a failed terminator write, as try! would
SseMessage_drop_stopsOnError(h) ==
  UNION {
    LET c == SinkWrite(<<NL>>, o.resp) IN
      IF ~c.ok THEN {Ret(<<c>>, TRUE, 0, "none", FALSE, o.h)}
      ELSE {Ret(<<c, SinkFlush(f.resp)>>, TRUE, 0, "none", FALSE, f.h) : f \in FlushOutcomes(o.h)}
    : o \in WriteOutcomes(h, <<NL>>) }

\* (mutant) a release that flushes before it writes the terminator
SseMessage_drop_flushFirst(h) ==
  UNION {
    { Ret(<<SinkFlush(f.resp), SinkWrite(<<NL>>, o.resp)>>, TRUE, 0, "none", FALSE, o.h)
      : o \in WriteOutcomes(f.h, <<NL>>) }
    : f \in FlushOutcomes(h) }

\* <SseMessage as Drop>::drop:
\*   self.0.write(&b"\n"[..]).is_ok(); self.0.flush().is_ok();
SseMessage_drop(h) ==
  UNION {
    { Ret(<<SinkWrite(<<NL>>, o.resp), SinkFlush(f.resp)>>, TRUE, 0, "none", FALSE, f.h)
      : f \in FlushOutcomes(o.h) }
    : o \in WriteOutcomes(h, <<NL>>) }

\* ---------------------------------------------------------- borrow rules
\* (mutant) no borrow held: the message is usable while its field lives
CanUseMessage_noBorrow == state \in {"Idle", "FieldOpen"}

\* data/event/id/retry take &mut self and return SseField<&mut W>: the
\* message is mutably borrowed for as long as the returned field lives, so
\* it can be used, and dropped, only when no SseField is alive.
CanUseMessage == state = "Idle"
\* The methods of SseField and its drop need the live SseField value.
CanUseField == state = "FieldOpen"
\* A sink is handed to SseMessage::new when no SseMessage holds it.
CanCreate == state \in {"NoMsg", "Closed"}

\* ----------------------------------------------------------------- history
Count(S) == Cardinality({i \in DOMAIN ops : ops[i].op \in S})

OpsLimit == IF health = "reliable" THEN MaxOps ELSE MaxFaultyOps

Rec(o, m, name, buf, r) ==
  [op |-> o, msg |-> m, name |-> name, buf |-> buf, at |-> Len(sink),
   calls |-> r.calls, ok |-> r.ok, n |-> r.n, err |-> r.err, made |-> r.made]

\* The effect common to every operation: the sink takes the bytes its calls
\* accepted and is what the calls left it, the operation is recorded.
Effect(o, m, name, buf, r) ==
  /\ Len(ops) < OpsLimit
  /\ sink' = sink \o AcceptedAll(r.calls)
  /\ health' = r.h
  /\ ops' = Append(ops, Rec(o, m, name, buf, r))

\* ----------------------------------------------------------------- actions
Start(h) ==
  /\ sink = <<>>
  /\ health = h
  /\ state = "NoMsg"
  /\ field = "none"
  /\ msgNo = 0
  /\ ops = <<>>

Init == Start("sound")

InitReliable == Start("reliable")

New ==
  /\ CanCreate
  /\ msgNo < MaxMsgs
  /\ \E r \in SseMessage_new(health) : Effect("new", msgNo + 1, "none", <<>>, r)
  /\ msgNo' = msgNo + 1
  /\ state' = "Idle"
  /\ field' = "none"

\* (mutant) the message taken to have a live field though the open failed
OpenField_opensAnyway(name, r) ==
  /\ CanUseMessage
  /\ Count({"open"}) < MaxFields
  /\ Effect("open", msgNo, name, <<>>, r)
  /\ state' = "FieldOpen"
  /\ field' = name
  /\ UNCHANGED msgNo

\* One of data()/event()/id()/retry(), r its run of SseField::new.
OpenField(name, r) ==
  /\ CanUseMessage
  /\ Count({"open"}) < MaxFields
  /\ Effect("open", msgNo, name, <<>>, r)
  /\ state' = IF r.made THEN "FieldOpen" ELSE "Idle"
  /\ field' = IF r.made THEN name ELSE "none"
  /\ UNCHANGED msgNo

Data  == \E r \in SseMessage_data(health)  : OpenField("data", r)
Event == \E r \in SseMessage_event(health) : OpenField("event", r)
Id    == \E r \in SseMessage_id(health)    : OpenField("id", r)
Retry == \E r \in SseMessage_retry(health) : OpenField("retry", r)

FieldWrite ==
  /\ CanUseField
  /\ Count({"write", "flush"}) < MaxWrites
  /\ \E buf \in Chunks : \E r \in SseField_write(buf, health) :
       Effect("write", msgNo, field, buf, r)
  /\ UNCHANGED <<state, field, msgNo>>

FieldFlush ==
  /\ CanUseField
  /\ Count({"write", "flush"}) < MaxWrites
  /\ \E r \in SseField_flush(health) : Effect("flush", msgNo, field, <<>>, r)
  /\ UNCHANGED <<state, field, msgNo>>

DropField ==
  /\ CanUseField
  /\ \E r \in SseField_drop(health) : Effect("dropField", msgNo, field, <<>>, r)
  /\ state' = "Idle"
  /\ field' = "none"
  /\ UNCHANGED msgNo

DropMessage ==
  /\ CanUseMessage
  /\ \E r \in SseMessage_drop(health) : Effect("dropMsg", msgNo, "none", <<>>, r)
  /\ state' = "Closed"
  /\ field' = "none"
  /\ UNCHANGED msgNo

Next ==
  \/ New
  \/ Data
  \/ Event
  \/ Id
  \/ Retry
  \/ FieldWrite
  \/ FieldFlush
  \/ DropField
  \/ DropMessage

\* Any sink: it may fail in each of the ways of WriteOutcomes.
Spec == Init /\ [][Next]_vars

\* A sink that accepts every write and every flush.
SpecReliable == InitReliable /\ [][Next]_vars

TypeOK ==
  /\ state \in {"NoMsg", "Idle", "FieldOpen", "Closed"}
  /\ field \in {"none", "data", "event", "id", "retry"}
  /\ msgNo \in 0..MaxMsgs
  /\ health \in {"reliable", "sound", "glitched", "full", "broken"}
\* ======================================================== wire format (spec)
\* The SSE grammar the crate documents:
\*   field := name ":" value "\n"      message := field* "\n"
WireName(n) ==
  CASE n = "data"  -> <<"d", "a", "t", "a">>
    [] n = "event" -> <<"e", "v", "e", "n", "t">>
    [] n = "id"    -> <<"i", "d">>
    [] n = "retry" -> <<"r", "e", "t", "r", "y">>

WirePrefix(n) == WireName(n) \o <<":">>
WireField(f) == WirePrefix(f.name) \o f.value \o <<NL>>

RECURSIVE WireFields(_)
WireFields(fs) == IF fs = <<>> THEN <<>> ELSE WireField(Head(fs)) \o WireFields(Tail(fs))

WireMessage(fs) == WireFields(fs) \o <<NL>>

NewlineFree(v) == \A i \in DOMAIN v : v[i] # NL

\* ------------------------------------------------- reading the history
\* The sink's bytes at positions a+1 .. b.
Seg(a, b) == SubSeq(sink, a + 1, b)

\* Length of the sink when operation i had finished.
EndOf(i) == IF i = Len(ops) THEN Len(sink) ELSE ops[i + 1].at

\* The operations of message m, in order.
MsgOps(m) == SelectSeq(ops, LAMBDA o : o.msg = m)

\* The fields the caller asked for in a run of operations: the name of each
\* field handed out, with the buffers given to its write calls, concatenated.
RECURSIVE FieldsAcc(_, _)
FieldsAcc(s, acc) ==
  IF s = <<>> THEN acc
  ELSE LET o == Head(s) IN
    FieldsAcc(Tail(s),
      CASE o.op = "open" /\ o.made -> Append(acc, [name |-> o.name, value |-> <<>>])
        [] o.op = "write" /\ acc # <<>> -> [acc EXCEPT ![Len(acc)].value = @ \o o.buf]
        [] OTHER -> acc)

FieldsOf(m) == FieldsAcc(MsgOps(m), <<>>)

Released(m) == \E i \in DOMAIN ops : ops[i].op = "dropMsg" /\ ops[i].msg = m
NewIdx(m) == CHOOSE i \in DOMAIN ops : ops[i].op = "new" /\ ops[i].msg = m
DropIdx(m) == CHOOSE i \in DOMAIN ops : ops[i].op = "dropMsg" /\ ops[i].msg = m

\* Every sink call of message m was accepted in full.
AllAccepted(m) ==
  \A i \in DOMAIN ops : ops[i].msg = m =>
    \A k \in DOMAIN ops[i].calls : ~IsFault(ops[i].calls[k])

\* ================================================================== claims

\* C1: with a sink that accepts every write, a message whose fields
\* (n1,v1) .. (nk,vk), each vi free of newlines, were opened, written and
\* released in that order and which was then released has appended to the
\* sink exactly n1 ":" v1 "\n" .. nk ":" vk "\n" followed by one "\n".
C1_MessageBytes ==
  \A m \in 1..msgNo :
    (/\ Released(m)
     /\ AllAccepted(m)
     /\ \A k \in DOMAIN FieldsOf(m) : NewlineFree(FieldsOf(m)[k].value))
    => Seg(ops[NewIdx(m)].at, EndOf(DropIdx(m))) = WireMessage(FieldsOf(m))

\* A released message of two fields with different names, the first written
\* in two chunks, the second in none, all appended as the wire format says.
C1_Witness ==
  \E m \in 1..msgNo :
    /\ Released(m) /\ AllAccepted(m)
    /\ Len(FieldsOf(m)) = 2
    /\ FieldsOf(m)[1].name = "event" /\ FieldsOf(m)[2].name = "retry"
    /\ FieldsOf(m)[1].value = <<"b", "c", "a">>
    /\ Seg(ops[NewIdx(m)].at, EndOf(DropIdx(m)))
         = <<"e", "v", "e", "n", "t", ":", "b", "c", "a", NL,
             "r", "e", "t", "r", "y", ":", NL, NL>>
\* ------------------------------------------------ the fields of the history
\* The release of the field opened by operation i: the first dropField after
\* it, 0 while the field is alive.
FieldEnd(i) ==
  LET later == {j \in DOMAIN ops : j > i /\ ops[j].op = "dropField"}
  IN  IF later = {} THEN 0 ELSE CHOOSE j \in later : \A k \in later : j <= k

\* The last operation so far on the field opened by operation i.
FieldLast(i) == IF FieldEnd(i) = 0 THEN Len(ops) ELSE FieldEnd(i)

IsField(i) == ops[i].op = "open" /\ ops[i].made

\* The buffers handed to the write calls among operations a..b, concatenated.
RECURSIVE Offered(_, _)
Offered(a, b) ==
  IF a > b THEN <<>>
  ELSE (IF ops[a].op = "write" THEN ops[a].buf ELSE <<>>) \o Offered(a + 1, b)

\* The bytes the write calls among operations a..b reported to their caller
\* as written: the first n bytes of the buffer for Ok(n), none for an error.
RECURSIVE Reported(_, _)
Reported(a, b) ==
  IF a > b THEN <<>>
  ELSE (IF ops[a].op = "write" /\ ops[a].ok THEN SubSeq(ops[a].buf, 1, ops[a].n) ELSE <<>>)
         \o Reported(a + 1, b)

\* Every sink call of operations a..b was accepted in full.
CleanOps(a, b) ==
  \A i \in a..b : \A k \in DOMAIN ops[i].calls : ~IsFault(ops[i].calls[k])

\* C2: for every field the bytes reach the sink in the order prefix, value,
\* terminator: the complete prefix "<name>:" is in the sink when the field
\* handle is returned, every value byte lies after it, the "\n" terminator
\* after every value byte; a single field n with newline-free content v,
\* all of it accepted, is exactly n ":" v "\n".
C2_FieldOrder ==
  \A i \in DOMAIN ops : IsField(i) =>
    LET p == WirePrefix(ops[i].name)
        start == ops[i].at
        j == FieldEnd(i)
    IN  /\ Seg(start, EndOf(i)) = p
        /\ \A k \in (i + 1)..FieldLast(i) : ops[k].at >= start + Len(p)
        /\ j # 0 =>
             /\ \A k \in (i + 1)..(j - 1) : EndOf(k) <= ops[j].at
             /\ Seg(ops[j].at, EndOf(j)) \in {<<>>, <<NL>>}
             /\ (CleanOps(i, j) /\ NewlineFree(Offered(i, j)))
                  => Seg(start, EndOf(j)) = p \o Offered(i, j) \o <<NL>>

\* An id field whose prefix needed a second write call (the first one was
\* short), then written and released: "id:bc\n".
C2_Witness ==
  \E i \in DOMAIN ops :
    /\ IsField(i) /\ ops[i].name = "id" /\ FieldEnd(i) = i + 2
    /\ Len(ops[i].calls) = 3 /\ ops[i].calls[1].n = 1
    /\ ops[i + 1].op = "write"
    /\ Seg(ops[i].at, EndOf(i + 2)) = <<"i", "d", ":", "b", "c", NL>>

\* C3: successive writes into one field reach the sink in call order,
\* unmodified, nothing inserted between them: the value region of the field
\* is the concatenation of the bytes its write calls reported as written
\* (of the chunks themselves when each was accepted whole).
C3_WritesConcatenate ==
  \A i \in DOMAIN ops : IsField(i) =>
    LET j == FieldEnd(i)
        from == ops[i].at + Len(WirePrefix(ops[i].name))
        to == IF j = 0 THEN Len(sink) ELSE ops[j].at
        upto == IF j = 0 THEN Len(ops) ELSE j - 1
    IN  /\ Seg(from, to) = Reported(i + 1, upto)
        /\ CleanOps(i + 1, upto) => Seg(from, to) = Offered(i + 1, upto)

\* A data field into which "a" then "bc" were written: its value is "abc".
C3_Witness ==
  \E i \in DOMAIN ops :
    /\ IsField(i) /\ ops[i].name = "data" /\ Len(ops) >= i + 2
    /\ ops[i + 1].op = "write" /\ ops[i + 1].buf = <<"a">>
    /\ ops[i + 2].op = "write" /\ ops[i + 2].buf = <<"b", "c">>
    /\ Seg(ops[i].at, Len(sink)) = <<"d", "a", "t", "a", ":", "a", "b", "c">>

\* C4: messages created and released one after another over the same sink
\* each append their own complete message, in creation order, no terminator
\* shared, merged or left out: once message m is released the sink is the
\* wire form of message 1, then of message 2, .. then of message m.
RECURSIVE WireAll(_)
WireAll(m) == IF m = 0 THEN <<>> ELSE WireAll(m - 1) \o WireMessage(FieldsOf(m))

C4_SequentialMessages ==
  \A m \in 1..msgNo :
    (Released(m) /\ \A k \in 1..m : AllAccepted(k))
      => Seg(0, EndOf(DropIdx(m))) = WireAll(m)

\* Two single-field data messages, "a" then "bc": "data:a\n\ndata:bc\n\n".
C4_Witness ==
  /\ msgNo = 2 /\ state = "Closed"
  /\ sink = <<"d", "a", "t", "a", ":", "a", NL, NL,
              "d", "a", "t", "a", ":", "b", "c", NL, NL>>
IsRelease(i) == ops[i].op \in {"dropField", "dropMsg"}

\* a is b cut short: a proper prefix of b.
ProperPrefix(a, b) == Len(a) < Len(b) /\ a = SubSeq(b, 1, Len(a))

\* C5: at most one field of a message is alive at any time, and while a
\* field is alive nothing reaches the sink through another field or through
\* the message: every operation between a field's open and its release is a
\* write or a flush on that field -- no second prefix, no message terminator.
C5_ExclusiveField ==
  /\ \A m \in 1..msgNo :
       LET opened == {i \in DOMAIN ops : IsField(i) /\ ops[i].msg = m}
           closed == {i \in DOMAIN ops : ops[i].op = "dropField" /\ ops[i].msg = m}
           alive == Cardinality(opened) - Cardinality(closed)
       IN  /\ alive \in {0, 1}
           /\ (alive = 1) <=> (m = msgNo /\ state = "FieldOpen")
  /\ \A i \in DOMAIN ops : IsField(i) =>
       \A k \in (i + 1)..FieldLast(i) :
         /\ ops[k].msg = ops[i].msg
         /\ ops[k].name = ops[i].name
         /\ ops[k].op \in (IF k = FieldEnd(i) THEN {"dropField"} ELSE {"write", "flush"})

\* A message whose first field was written and released and whose second
\* field is alive and has been written to.
C5_Witness ==
  \E i, j \in DOMAIN ops :
    /\ IsField(i) /\ IsField(j) /\ ops[i].msg = ops[j].msg
    /\ FieldEnd(i) # 0 /\ FieldEnd(i) < j /\ FieldEnd(j) = 0
    /\ ops[i + 1].op = "write" /\ ops[Len(ops)].op = "write" /\ Len(ops) > j
    /\ state = "FieldOpen"

\* C6: a message moves Idle -> FieldOpen only by a successful field open,
\* FieldOpen -> Idle only by the field's release (which issues the field
\* terminator write), Idle -> Closed only by its own release (which issues
\* the message terminator write); it never closes from FieldOpen, and once
\* Closed does nothing more: the only step left is the creation of the next
\* message, which makes no sink call.
C6_Step ==
  LET o == ops'[Len(ops')] IN
    /\ <<state, state'>> \in
         { <<"NoMsg", "Idle">>, <<"Closed", "Idle">>,
           <<"Idle", "Idle">>, <<"Idle", "FieldOpen">>,
           <<"FieldOpen", "FieldOpen">>, <<"FieldOpen", "Idle">>,
           <<"Idle", "Closed">> }
    /\ (state = "Idle" /\ state' = "FieldOpen") <=> (o.op = "open" /\ o.ok)
    /\ (state = "Idle" /\ state' = "Idle") <=> (o.op = "open" /\ ~o.ok)
    /\ (state = "FieldOpen" /\ state' = "FieldOpen") <=> (o.op \in {"write", "flush"})
    /\ (state = "FieldOpen" /\ state' = "Idle") <=>
         (o.op = "dropField" /\ o.calls[1].op = "write" /\ o.calls[1].buf = <<NL>>)
    /\ (state' = "Closed") <=>
         (o.op = "dropMsg" /\ o.calls[1].op = "write" /\ o.calls[1].buf = <<NL>>)
    /\ (state \in {"NoMsg", "Closed"}) <=>
         (o.op = "new" /\ o.msg = msgNo + 1 /\ msgNo' = msgNo + 1 /\ o.calls = <<>>)
    /\ o.op # "new" => o.msg = msgNo /\ msgNo' = msgNo

C6_Lifecycle == [][C6_Step]_vars

\* A message that went Idle, FieldOpen, Idle, Closed after a failed open,
\* followed by the creation of the next message.
C6_Witness ==
  /\ Len(ops) = 6 /\ state = "Idle" /\ msgNo = 2
  /\ ops[2].op = "open" /\ ~ops[2].ok
  /\ ops[3].op = "open" /\ ops[3].ok
  /\ ops[4].op = "dropField" /\ ops[5].op = "dropMsg" /\ ops[6].op = "new"

\* C7 as claimed: after every release the sink holds the writer's "\n"
\* terminator, whatever happened before the release.
C7_TerminatorInSink ==
  \A i \in DOMAIN ops : IsRelease(i) => Seg(ops[i].at, EndOf(i)) = <<NL>>

\* C7 amended: every release, whatever happened before it, issues the
\* terminator write -- one write call of "\n", the only write of the
\* release, followed by nothing but the message's flush -- and the sink
\* holds the terminator after the release exactly when it accepted that
\* write; otherwise the release has added nothing.
C7_TerminatorAttempted ==
  \A i \in DOMAIN ops : IsRelease(i) =>
    LET cs == ops[i].calls IN
      /\ Len(cs) >= 1
      /\ cs[1].op = "write" /\ cs[1].buf = <<NL>>
      /\ \A k \in 2..Len(cs) : cs[k].op = "flush"
      /\ Seg(ops[i].at, EndOf(i)) = (IF cs[1].ok /\ cs[1].n = 1 THEN <<NL>> ELSE <<>>)

\* A field released right after a value write that failed, and a field
\* released with no value written: both terminators are in the sink.
C7_Witness ==
  \E i, j \in DOMAIN ops :
    /\ ops[i].op = "dropField" /\ ops[i - 1].op = "write" /\ ~ops[i - 1].ok
    /\ Seg(ops[i].at, EndOf(i)) = <<NL>>
    /\ ops[j].op = "dropField" /\ ops[j - 1].op = "open"
    /\ Seg(ops[j].at, EndOf(j)) = <<NL>>

\* C8: a field open whose prefix write fails returns the error and no
\* field; the bytes it added are the part of "<name>:" the sink accepted
\* before the failure; no field terminator follows for that attempt; the
\* message is Idle afterwards: its next operation is another field open or
\* its release.
C8_FailedOpen ==
  \A i \in DOMAIN ops : ops[i].op = "open" =>
    /\ ops[i].made <=> ops[i].ok
    /\ ~ops[i].ok =>
         /\ ops[i].err # "none"
         /\ ProperPrefix(Seg(ops[i].at, EndOf(i)), WirePrefix(ops[i].name))
         /\ i = Len(ops) => (state = "Idle" /\ field = "none")
         /\ i < Len(ops) =>
              (ops[i + 1].op \in {"open", "dropMsg"} /\ ops[i + 1].msg = ops[i].msg)

\* A retry() that failed on its ":" and left "retry" in the sink, after
\* which id() opened a field on the same message.
C8_Witness ==
  \E i \in DOMAIN ops :
    /\ i < Len(ops)
    /\ ops[i].op = "open" /\ ~ops[i].ok /\ ops[i].name = "retry"
    /\ Seg(ops[i].at, EndOf(i)) = <<"r", "e", "t", "r", "y">>
    /\ ops[i + 1].op = "open" /\ ops[i + 1].ok /\ ops[i + 1].name = "id"
    /\ state = "FieldOpen"

\* A failed field open directly followed by a successful open of the same field.
IsRetry(i) ==
  /\ i < Len(ops)
  /\ ops[i].op = "open" /\ ~ops[i].ok
  /\ ops[i + 1].op = "open" /\ ops[i + 1].ok
  /\ ops[i + 1].name = ops[i].name

\* C9 as claimed: once the retry of a failed field open succeeds the sink
\* holds "<name>:" exactly once, as after a single successful open.
C9_RetryIdempotent ==
  \A i \in DOMAIN ops : IsRetry(i) =>
    Seg(ops[i].at, EndOf(i + 1)) = WirePrefix(ops[i].name)

\* C9 amended: the failed open leaves no field, and the successful retry
\* appends one complete "<name>:" after whatever part of the prefix the
\* failed attempt had put in the sink; the result is that of a single
\* successful open exactly when the failed attempt added no byte.
C9_RetryAppends ==
  \A i \in DOMAIN ops : IsRetry(i) =>
    /\ ~ops[i].made
    /\ ProperPrefix(Seg(ops[i].at, ops[i + 1].at), WirePrefix(ops[i].name))
    /\ Seg(ops[i + 1].at, EndOf(i + 1)) = WirePrefix(ops[i].name)
    /\ (Seg(ops[i].at, EndOf(i + 1)) = WirePrefix(ops[i].name))
         <=> (ops[i + 1].at = ops[i].at)

\* A data() that failed with nothing accepted, retried with success.
C9_Witness ==
  \E i \in DOMAIN ops :
    /\ IsRetry(i) /\ ops[i].name = "data"
    /\ Seg(ops[i].at, EndOf(i + 1)) = <<"d", "a", "t", "a", ":">>

\* C10: whatever the sink does, a release completes and hands no error to
\* its caller; after a field release the message is Idle, after a message
\* release it is Closed, also when the terminator write or the flush
\* failed; the message release makes its flush call after its terminator
\* write, failed or not.
C10_ReleaseSwallows ==
  \A i \in DOMAIN ops : IsRelease(i) =>
    /\ ops[i].ok /\ ops[i].err = "none"
    /\ ops[i].op = "dropMsg" =>
         /\ Len(ops[i].calls) = 2
         /\ ops[i].calls[1].op = "write" /\ ops[i].calls[2].op = "flush"
    /\ i = Len(ops) => state = (IF ops[i].op = "dropField" THEN "Idle" ELSE "Closed")
    /\ i < Len(ops) =>
         ops[i + 1].op \in (IF ops[i].op = "dropField" THEN {"open", "dropMsg"} ELSE {"new"})

\* A field release whose terminator write failed, then the release of the
\* message with its terminator write and its flush both failing.
C10_Witness ==
  \E i \in DOMAIN ops :
    /\ i < Len(ops)
    /\ ops[i].op = "dropField" /\ ~ops[i].calls[1].ok
    /\ ops[i + 1].op = "dropMsg"
    /\ ~ops[i + 1].calls[1].ok /\ ~ops[i + 1].calls[2].ok
    /\ state = "Closed"
\* C11: a write call on a field makes exactly one write call on the sink,
\* with the same bytes, and returns what the sink returned (the count, also
\* a short one, or the error); a flush call on a field makes exactly one
\* flush call on the sink and returns its result; the field keeps nothing
\* back: the bytes a write reports as written are the bytes the sink gained.
C11_WriteThrough ==
  \A i \in DOMAIN ops :
    /\ ops[i].op = "write" =>
         LET c == ops[i].calls[1] IN
           /\ Len(ops[i].calls) = 1
           /\ c.op = "write" /\ c.buf = ops[i].buf
           /\ ops[i].ok = c.ok /\ ops[i].n = c.n /\ ops[i].err = c.err
           /\ Seg(ops[i].at, EndOf(i))
                = (IF ops[i].ok THEN SubSeq(ops[i].buf, 1, ops[i].n) ELSE <<>>)
    /\ ops[i].op = "flush" =>
         LET c == ops[i].calls[1] IN
           /\ Len(ops[i].calls) = 1
           /\ c.op = "flush"
           /\ ops[i].ok = c.ok /\ ops[i].err = c.err
           /\ EndOf(i) = ops[i].at

\* A write of "bc" of which the sink took one byte, reported as Ok(1) with
\* "b" in the sink, followed by a flush that returned Ok.
C11_Witness ==
  \E i \in DOMAIN ops :
    /\ i < Len(ops)
    /\ ops[i].op = "write" /\ ops[i].buf = <<"b", "c">>
    /\ ops[i].ok /\ ops[i].n = 1
    /\ Seg(ops[i].at, EndOf(i)) = <<"b">>
    /\ ops[i + 1].op = "flush" /\ ops[i + 1].ok

\* The operations whose result is handed to the caller.
IsSync(i) == ops[i].op \in {"open", "write", "flush"}

\* C12 as claimed: once the sink has reported a failure inside a field open,
\* a value write or an explicit flush, the operation makes no further sink
\* call and returns that error.
C12_NoRetry ==
  \A i \in DOMAIN ops : IsSync(i) =>
    \A k \in DOMAIN ops[i].calls : ~ops[i].calls[k].ok =>
      /\ k = Len(ops[i].calls)
      /\ ~ops[i].ok /\ ops[i].err = ops[i].calls[k].err

\* C12 amended: a sink failure inside a field open, a value write or an
\* explicit flush ends the operation, which returns that error without
\* another sink call -- except ErrorKind::Interrupted during the prefix
\* write of a field open, after which the same bytes are written again.
C12_NoRetryButInterrupted ==
  \A i \in DOMAIN ops : IsSync(i) =>
    LET cs == ops[i].calls IN
      \A k \in DOMAIN cs : ~cs[k].ok =>
        IF ops[i].op = "open" /\ cs[k].err = "Interrupted"
          THEN /\ k < Len(cs)
               /\ cs[k + 1].op = "write" /\ cs[k + 1].buf = cs[k].buf
          ELSE /\ k = Len(cs)
               /\ ~ops[i].ok /\ ops[i].err = cs[k].err

\* A value write the sink failed, then a flush it failed: each made its one
\* sink call and returned the error.
C12_Witness ==
  \E i \in DOMAIN ops :
    /\ i > 1
    /\ ops[i - 1].op = "write" /\ ~ops[i - 1].ok /\ ops[i - 1].err = "Error"
    /\ Len(ops[i - 1].calls) = 1
    /\ ops[i].op = "flush" /\ ~ops[i].ok /\ ops[i].err = "Error"
    /\ Len(ops[i].calls) = 1
\* C13: the release of a message makes exactly two sink calls, in this
\* order: one write of the single newline that ends the message, then one
\* flush; never the flush first, never another write or flush.
C13_ReleaseWriteThenFlush ==
  \A i \in DOMAIN ops : ops[i].op = "dropMsg" =>
    /\ [k \in DOMAIN ops[i].calls |-> ops[i].calls[k].op] = <<"write", "flush">>
    /\ ops[i].calls[1].buf = <<NL>>
    /\ ops[i].calls[2].buf = <<>>

\* A message with one field released over a sink that took everything: the
\* sink ends with the blank line and the release made its two calls.
C13_Witness ==
  /\ state = "Closed"
  /\ Len(ops) = 4
  /\ ops[4].calls[1].ok /\ ops[4].calls[1].n = 1 /\ ops[4].calls[2].ok
  /\ Len(sink) >= 2
  /\ Seg(Len(sink) - 2, Len(sink)) = <<NL, NL>>

FieldNames == {"data", "event", "id", "retry"}

\* C14: every field opened through a message starts with exactly one of
\* "data:", "event:", "id:", "retry:", and each operation writes its own
\* name: the prefix write of data() is handed "data" and then ":", and so
\* on; no field with another name starts in the sink.
C14_FieldNames ==
  \A i \in DOMAIN ops : ops[i].op = "open" =>
    /\ ops[i].name \in FieldNames
    /\ ops[i].calls[1].buf = WireName(ops[i].name)
    /\ \A k \in DOMAIN ops[i].calls :
         \/ \E a \in 1..Len(WireName(ops[i].name)) :
              ops[i].calls[k].buf
                = SubSeq(WireName(ops[i].name), a, Len(WireName(ops[i].name)))
         \/ ops[i].calls[k].buf = <<":">>
    /\ ops[i].ok =>
         /\ ops[i].calls[Len(ops[i].calls)].buf = <<":">>
         /\ Seg(ops[i].at, EndOf(i)) \in {WirePrefix(n) : n \in FieldNames}
         /\ Seg(ops[i].at, EndOf(i)) = WirePrefix(ops[i].name)

\* event() then id() on one message: "event:\nid:" in the sink.
C14_Witness ==
  /\ Len(ops) = 4 /\ state = "FieldOpen"
  /\ ops[2].op = "open" /\ ops[2].name = "event"
  /\ ops[4].op = "open" /\ ops[4].name = "id"
  /\ sink = <<"e", "v", "e", "n", "t", ":", NL, "i", "d", ":">>

\* C15: creating a message over a sink performs no I/O: no write, no flush,
\* the sink unchanged; the first bytes of a message come from its first
\* field open or, with no field, from its release.
C15_NewNoIO ==
  \A i \in DOMAIN ops : ops[i].op = "new" =>
    /\ ops[i].calls = <<>>
    /\ ops[i].ok
    /\ EndOf(i) = ops[i].at
    /\ i < Len(ops) => (ops[i + 1].op \in {"open", "dropMsg"} /\ ops[i + 1].msg = ops[i].msg)
    /\ i = Len(ops) => (state = "Idle" /\ Len(sink) = ops[i].at)
    /\ i > 1 => (ops[i - 1].op = "dropMsg" /\ ops[i].at = EndOf(i - 1))

\* A second message created over a sink holding the first one ("\n"), then
\* released with no field: its first byte is its terminator.
C15_Witness ==
  /\ Len(ops) = 4
  /\ ops[3].op = "new" /\ ops[3].at = 1
  /\ ops[4].op = "dropMsg"
  /\ sink = <<NL, NL>>
\* Number of newline bytes in a byte string.
Newlines(v) == Cardinality({k \in DOMAIN v : v[k] = NL})

\* C16: field values are not validated: a write whose bytes contain "\n",
\* or a write of non-digits into a retry field, is handed to the sink as
\* given and fails only when the sink fails it; what the sink accepts of it
\* is in the sink unaltered.  (That the sink can so hold more line breaks
\* than fields were released is the witness.)
C16_NoValidation ==
  \A i \in DOMAIN ops :
    (ops[i].op = "write" /\ (~NewlineFree(ops[i].buf) \/ ops[i].name = "retry")) =>
      LET c == ops[i].calls[1] IN
        /\ ops[i].calls # <<>>
        /\ c.buf = ops[i].buf
        /\ ~ops[i].ok => ~c.ok
        /\ (c.ok /\ c.n = Len(c.buf)) =>
             (ops[i].ok /\ Seg(ops[i].at, EndOf(i)) = ops[i].buf)

\* A released message of one retry field into which "\n" and then "a" were
\* written: "retry:\na\n\n", three line breaks for one field released.
C16_Witness ==
  /\ state = "Closed" /\ msgNo = 1
  /\ Cardinality({i \in DOMAIN ops : ops[i].op = "dropField"}) = 1
  /\ sink = <<"r", "e", "t", "r", "y", ":", NL, "a", NL, NL>>
  /\ Newlines(sink) = 3

\* Number of write calls among the sink calls cs.
WriteCalls(cs) == Cardinality({k \in DOMAIN cs : cs[k].op = "write"})

\* C17: a release makes exactly one write call on the sink, with the
\* one-byte buffer "\n", and does not make it again whatever the call
\* returned (an error, Ok(0)): a release adds no byte or one newline.
C17_OneTerminatorWrite ==
  \A i \in DOMAIN ops : IsRelease(i) =>
    /\ WriteCalls(ops[i].calls) = 1
    /\ \A k \in DOMAIN ops[i].calls :
         ops[i].calls[k].op = "write" => ops[i].calls[k].buf = <<NL>>
    /\ EndOf(i) - ops[i].at \in {0, 1}
    /\ \A k \in (ops[i].at + 1)..EndOf(i) : sink[k] = NL

\* A field release and then a message release over a sink with no room
\* left: each made its one write call, got Ok(0) and did not write again.
C17_Witness ==
  /\ Len(ops) = 4
  /\ ops[3].op = "dropField" /\ ops[4].op = "dropMsg"
  /\ ops[3].calls[1].ok /\ ops[3].calls[1].n = 0 /\ Len(ops[3].calls) = 1
  /\ ops[4].calls[1].ok /\ ops[4].calls[1].n = 0 /\ WriteCalls(ops[4].calls) = 1
  /\ sink = <<"i", "d", ":">>

\* Number of flush calls the sink received in operations 1..i.
RECURSIVE FlushCalls(_)
FlushCalls(i) ==
  IF i = 0 THEN 0
  ELSE FlushCalls(i - 1)
         + Cardinality({k \in DOMAIN ops[i].calls : ops[i].calls[k].op = "flush"})

\* C18: a field open and a field release never flush the sink: the flush
\* calls the sink has received are as many as the messages released plus
\* the explicit flush calls made on fields.
C18_FlushCount ==
  /\ FlushCalls(Len(ops)) = Count({"dropMsg"}) + Count({"flush"})
  /\ \A i \in DOMAIN ops : ops[i].op \in {"open", "dropField"} =>
       \A k \in DOMAIN ops[i].calls : ops[i].calls[k].op # "flush"

\* One message with one field: an explicit flush that failed, the field
\* released, the message released: two flush calls on the sink.
C18_Witness ==
  /\ Count({"dropMsg"}) = 1 /\ Count({"flush"}) = 1 /\ Count({"dropField"}) = 1
  /\ \E i \in DOMAIN ops : ops[i].op = "flush" /\ ~ops[i].ok
  /\ FlushCalls(Len(ops)) = 2
====
